---- MODULE Spec2Model ----
(***************************************************************************)
(* The segment triad of the commit log: the append-only store file, the    *)
(* memory-mapped index file and the segment that composes them.            *)
(*                                                                         *)
(* Files are sequences of bytes.  File lengths and in-memory sizes are     *)
(* naturals far below 2^31.  Every value the code passes through a uint64, *)
(* int64 or uint32 conversion (offsets, positions, entry numbers) is a     *)
(* fixed-width word: four 16-bit limbs for 64 bits, two for 32 bits, most  *)
(* significant first, so that wrap-around and truncation are computed.     *)
(***************************************************************************)
EXTENDS Integers, Sequences, FiniteSets, TLC

VARIABLES
    storeFile,  \* bytes of "<baseOffset>.store" on disk
    indexFile,  \* bytes of "<baseOffset>.index" on disk (shared with the mmap)
    st,         \* the store object: buffered writer and size
    ix,         \* the index object: logical size and mapped length
    seg,        \* the segment object: baseOffset, nextOffset, config
    phase,      \* "open" | "closed" | "broken"
    res,        \* result of the last operation
    appended,   \* history: records accepted by segment.Append
    stored,     \* history: entries accepted by store.Append
    written,    \* history: entries accepted by index.Write
    recovered,  \* history: a segment was built on files that held records
    dir,        \* the files that exist in the segment's directory
    mu,         \* the store's mutex: the thread that holds it, or 0
    thr,        \* each thread's position in the call it is making, and locals
    ext         \* the caller's lock around segment.Append: in use, and holder

vars == <<storeFile, indexFile, st, ix, seg, phase, res,
          appended, stored, written, recovered, dir, mu, thr, ext>>

\* what the operations of a single caller leave alone
threads == <<mu, thr, ext>>

----------------------------------------------------------------------------
(* Fixed-width words *)

Limb == 256 * 256
HalfLimb == 128 * 256

\* uint64(n) for a natural n < 2^31
Wide(n) == <<0, 0, n \div Limb, n % Limb>>

\* carries (or borrows) propagated, the result taken modulo 2^64
Norm64(x) ==
    LET c4 == x[4] \div Limb
        s3 == x[3] + c4
        c3 == s3 \div Limb
        s2 == x[2] + c3
        c2 == s2 \div Limb
        s1 == x[1] + c2
    IN  <<s1 % Limb, s2 % Limb, s3 % Limb, x[4] % Limb>>

Add64(a, b) == Norm64(<<a[1] + b[1], a[2] + b[2], a[3] + b[3], a[4] + b[4]>>)
Sub64(a, b) == Norm64(<<a[1] - b[1], a[2] - b[2], a[3] - b[3], a[4] - b[4]>>)
\* a * k modulo 2^64, for a small natural k
Mul64(a, k) == Norm64(<<a[1] * k, a[2] * k, a[3] * k, a[4] * k>>)

\* a \div k and a % k for a small natural k (long division over the limbs)
Div64(a, k) ==
    LET r1 == a[1] % k
        n2 == r1 * Limb + a[2]
        r2 == n2 % k
        n3 == r2 * Limb + a[3]
        r3 == n3 % k
        n4 == r3 * Limb + a[4]
    IN  <<a[1] \div k, n2 \div k, n3 \div k, n4 \div k>>
Mod64(a, k) ==
    LET r1 == a[1] % k
        r2 == (r1 * Limb + a[2]) % k
        r3 == (r2 * Limb + a[3]) % k
    IN  (r3 * Limb + a[4]) % k

Lt64(a, b) ==
    \E i \in 1..4 : a[i] < b[i] /\ \A j \in 1..(i - 1) : a[j] = b[j]
Le64(a, b) == a = b \/ Lt64(a, b)

\* the word is below 2^31, and its value as a natural
Fits(a) == a[1] = 0 /\ a[2] = 0 /\ a[3] < HalfLimb
Nat64(a) == a[3] * Limb + a[4]

\* int64(x) of a uint64 x is negative
Negative64(a) == a[1] >= HalfLimb
\* the uint64 whose int64 reading is -1
MinusOne64 == <<Limb - 1, Limb - 1, Limb - 1, Limb - 1>>

\* uint32(x): the low 32 bits; uint64(u): zero extension
U32(a) == <<a[3], a[4]>>
Ext32(u) == <<0, 0, u[1], u[2]>>

----------------------------------------------------------------------------
(* encoding/binary, big endian *)

enc16(l) == <<l \div 256, l % 256>>
dec16(b) == b[1] * 256 + b[2]

PutUint32(u) == enc16(u[1]) \o enc16(u[2])
PutUint64(a) == enc16(a[1]) \o enc16(a[2]) \o enc16(a[3]) \o enc16(a[4])
Uint32(b) == <<dec16(SubSeq(b, 1, 2)), dec16(SubSeq(b, 3, 4))>>
Uint64(b) == <<dec16(SubSeq(b, 1, 2)), dec16(SubSeq(b, 3, 4)),
               dec16(SubSeq(b, 5, 6)), dec16(SubSeq(b, 7, 8))>>

Zeros(n) == [i \in 1..n |-> 0]

----------------------------------------------------------------------------
(* Bounds of the model *)

\* capacity of the store's buffered writer (bufio's default is 4096; the
\* model's records are a few bytes, so the buffer is scaled down with them)
BufSize == 20
\* index capacities run over 12 * (1..MaxEntries)
MaxEntries == 3

----------------------------------------------------------------------------
(* api.Record and its wire format *)

\* base-128 varint of a uint64, least significant group first
RECURSIVE Varint(_)
Varint(a) ==
    IF Fits(a) /\ Nat64(a) < 128
    THEN <<Nat64(a)>>
    ELSE <<128 + Mod64(a, 128)>> \o Varint(Div64(a, 128))

\* the varint that starts at p[i]: its value and the index after it
RECURSIVE VarintAt(_, _)
VarintAt(p, i) ==
    IF i > Len(p)
    THEN [ok |-> FALSE, val |-> Wide(0), next |-> i]
    ELSE IF p[i] < 128
    THEN [ok |-> TRUE, val |-> Wide(p[i]), next |-> i + 1]
    ELSE LET r == VarintAt(p, i + 1)
         IN  [ok |-> r.ok,
              val |-> Add64(Mul64(r.val, 128), Wide(p[i] - 128)),
              next |-> r.next]

\* message Record { bytes value = 1; uint64 offset = 2; }: a field that holds
\* its zero value is not written
Marshal(r) ==
    (IF Len(r.Value) > 0
     THEN <<10>> \o Varint(Wide(Len(r.Value))) \o r.Value
     ELSE <<>>)
    \o (IF r.Offset # Wide(0) THEN <<16>> \o Varint(r.Offset) ELSE <<>>)

RECURSIVE ParseFields(_, _, _)
ParseFields(p, i, r) ==
    IF i > Len(p)
    THEN [ok |-> TRUE, rec |-> r]
    ELSE LET v == VarintAt(p, i + 1)
         IN  IF ~v.ok
             THEN [ok |-> FALSE, rec |-> r]
             ELSE IF p[i] = 16
             THEN ParseFields(p, v.next, [r EXCEPT !.Offset = v.val])
             ELSE IF p[i] = 10 /\ Fits(v.val)
                               /\ v.next + Nat64(v.val) - 1 <= Len(p)
             THEN ParseFields(p, v.next + Nat64(v.val),
                     [r EXCEPT !.Value =
                         SubSeq(p, v.next, v.next + Nat64(v.val) - 1)])
             ELSE [ok |-> FALSE, rec |-> r]

Unmarshal(p) == ParseFields(p, 1, [Value |-> <<>>, Offset |-> Wide(0)])

----------------------------------------------------------------------------
(* The store: length-prefixed entries behind a buffered writer *)

lenWidth == 8

\* bufio.Writer.Flush on w = [file, buf, err]; fail: the file write fails
BufFlush(w, fail) ==
    IF w.err \/ w.buf = <<>>
    THEN w
    ELSE IF fail
    THEN [w EXCEPT !.err = TRUE]
    ELSE [w EXCEPT !.file = @ \o w.buf, !.buf = <<>>]

\* bufio.Writer.Write: what does not fit is flushed, or written through when
\* the buffer is empty; the writer's error is sticky
RECURSIVE BufWrite(_, _, _)
BufWrite(w, p, fail) ==
    IF Len(p) > BufSize - Len(w.buf) /\ ~w.err
    THEN IF w.buf = <<>>
         THEN IF fail
              THEN [w EXCEPT !.err = TRUE]
              ELSE BufWrite([w EXCEPT !.file = @ \o p], <<>>, fail)
         ELSE LET n == BufSize - Len(w.buf)
                  filled == [w EXCEPT !.buf = @ \o SubSeq(p, 1, n)]
              IN  BufWrite(BufFlush(filled, fail),
                           SubSeq(p, n + 1, Len(p)), fail)
    ELSE IF w.err
    THEN w
    ELSE [w EXCEPT !.buf = @ \o p]

\* os.File.ReadAt of n bytes at int64 offset off
ReadAt(file, n, off) ==
    IF Negative64(off)
    THEN [kind |-> "ioerr", val |-> <<>>]
    ELSE IF n = 0
    THEN [kind |-> "ok", val |-> <<>>]
    ELSE IF ~Fits(off) \/ Nat64(off) + n > Len(file)
    THEN [kind |-> "EOF", val |-> <<>>]
    ELSE [kind |-> "ok", val |-> SubSeq(file, Nat64(off) + 1, Nat64(off) + n)]

newStore(file) == [buf |-> <<>>, err |-> FALSE, size |-> Len(file)]

\* store.Append with the length prefix left out of the count
store_Append_NoLenWidth(s, file, p, fail) ==
    LET w0 == [file |-> file, buf |-> s.buf, err |-> s.err]
        w1 == BufWrite(w0, PutUint64(Wide(Len(p))), fail)
        w2 == BufWrite(w1, p, fail)
        bad(w) == [st |-> [s EXCEPT !.buf = w.buf, !.err = TRUE],
                   file |-> w.file, ok |-> FALSE, n |-> 0, pos |-> 0]
    IN  IF w1.err THEN bad(w1)
        ELSE IF w2.err THEN bad(w2)
        ELSE [st |-> [buf |-> w2.buf, err |-> FALSE,
                      size |-> s.size + Len(p)],
              file |-> w2.file, ok |-> TRUE,
              n |-> Len(p), pos |-> s.size]

\* store.Append(p): [st, file, ok, n, pos]
store_Append(s, file, p, fail) ==
    LET w0 == [file |-> file, buf |-> s.buf, err |-> s.err]
        w1 == BufWrite(w0, PutUint64(Wide(Len(p))), fail)
        w2 == BufWrite(w1, p, fail)
        bad(w) == [st |-> [s EXCEPT !.buf = w.buf, !.err = TRUE],
                   file |-> w.file, ok |-> FALSE, n |-> 0, pos |-> 0]
    IN  IF w1.err THEN bad(w1)
        ELSE IF w2.err THEN bad(w2)
        ELSE [st |-> [buf |-> w2.buf, err |-> FALSE,
                      size |-> s.size + (Len(p) + lenWidth)],
              file |-> w2.file, ok |-> TRUE,
              n |-> Len(p) + lenWidth, pos |-> s.size]

\* store.Read without the flush of the buffered writer
store_Read_NoFlush(s, file, pos, fail) ==
    LET out(k, v) == [st |-> s, file |-> file, kind |-> k, val |-> v]
        size == ReadAt(file, lenWidth, pos)
        n == Uint64(size.val)
        b == ReadAt(file, Nat64(n), Add64(pos, Wide(lenWidth)))
    IN  IF size.kind # "ok" THEN out(size.kind, <<>>)
        ELSE IF ~Fits(n) THEN out("alloc", <<>>)
        ELSE out(b.kind, b.val)

\* store.Read(pos): [st, file, kind, val]
store_Read(s, file, pos, fail) ==
    LET w == BufFlush([file |-> file, buf |-> s.buf, err |-> s.err], fail)
        s1 == [s EXCEPT !.buf = w.buf, !.err = w.err]
        out(k, v) == [st |-> s1, file |-> w.file, kind |-> k, val |-> v]
        size == ReadAt(w.file, lenWidth, pos)
        n == Uint64(size.val)
        b == ReadAt(w.file, Nat64(n), Add64(pos, Wide(lenWidth)))
    IN  IF w.err THEN out("ioerr", <<>>)
        ELSE IF size.kind # "ok" THEN out(size.kind, <<>>)
        ELSE IF ~Fits(n) THEN out("alloc", <<>>)
        ELSE out(b.kind, b.val)

\* store.Close(): [st, file, ok]
store_Close(s, file, fail) ==
    LET w == BufFlush([file |-> file, buf |-> s.buf, err |-> s.err], fail)
    IN  [st |-> [s EXCEPT !.buf = w.buf, !.err = w.err],
         file |-> w.file, ok |-> ~w.err]

----------------------------------------------------------------------------
(* The index: 12-byte entries in a file mapped at its full capacity *)

offWidth == 4
posWidth == 8
entWidth == offWidth + posWidth

\* os.Truncate: cut, or extended with zero bytes
Truncate(file, n) ==
    IF n <= Len(file) THEN SubSeq(file, 1, n) ELSE file \o Zeros(n - Len(file))

\* newIndex(f, c): the size is the length the file had; the file is then
\* set to MaxIndexBytes and mapped whole
newIndex(file, c) ==
    [ix |-> [size |-> Len(file), mapLen |-> c.MaxIndexBytes],
     file |-> Truncate(file, c.MaxIndexBytes)]

\* isMaxed off by one: full while one entry still fits
isMaxed_OffByOne(i) == i.mapLen <= i.size + entWidth

isMaxed(i) == i.mapLen < i.size + entWidth

\* index.Read(in): [kind, off, pos]; in is the int64 as its 64-bit pattern
index_Read(i, file, in) ==
    LET out == IF in = MinusOne64
               THEN U32(Sub64(Wide(i.size \div entWidth), Wide(1)))
               ELSE U32(in)
        pos == Mul64(Ext32(out), entWidth)
        at == Nat64(pos)
        none(k) == [kind |-> k, off |-> <<0, 0>>, pos |-> Wide(0)]
    IN  IF i.size = 0 THEN none("EOF")
        ELSE IF Lt64(Wide(i.size), Add64(pos, Wide(entWidth))) THEN none("EOF")
        ELSE IF at + entWidth > i.mapLen THEN none("panic")
        ELSE [kind |-> "ok",
              off |-> Uint32(SubSeq(file, at + 1, at + offWidth)),
              pos |-> Uint64(SubSeq(file, at + offWidth + 1, at + entWidth))]

\* index.Write that advances the size by the position's width only
index_Write_PosWidth(i, file, off, pos) ==
    IF isMaxed(i)
    THEN [ix |-> i, file |-> file, kind |-> "EOF"]
    ELSE [ix |-> [i EXCEPT !.size = @ + posWidth],
          file |-> SubSeq(file, 1, i.size)
                   \o PutUint32(off) \o PutUint64(pos)
                   \o SubSeq(file, i.size + entWidth + 1, Len(file)),
          kind |-> "ok"]

\* index.Write that puts the entry at the start of the mapping
index_Write_AtStart(i, file, off, pos) ==
    IF isMaxed(i)
    THEN [ix |-> i, file |-> file, kind |-> "EOF"]
    ELSE [ix |-> [i EXCEPT !.size = @ + entWidth],
          file |-> PutUint32(off) \o PutUint64(pos)
                   \o SubSeq(file, entWidth + 1, Len(file)),
          kind |-> "ok"]

\* index.Write that, when full, puts the entry over the last one
index_Write_OverLast(i, file, off, pos) ==
    IF isMaxed(i)
    THEN [ix |-> i,
          file |-> IF i.size >= entWidth
                   THEN SubSeq(file, 1, i.size - entWidth)
                        \o PutUint32(off) \o PutUint64(pos)
                        \o SubSeq(file, i.size + 1, Len(file))
                   ELSE file,
          kind |-> "EOF"]
    ELSE [ix |-> [i EXCEPT !.size = @ + entWidth],
          file |-> SubSeq(file, 1, i.size)
                   \o PutUint32(off) \o PutUint64(pos)
                   \o SubSeq(file, i.size + entWidth + 1, Len(file)),
          kind |-> "ok"]

\* index.Write(off, pos): [ix, file, kind]
index_Write(i, file, off, pos) ==
    IF isMaxed(i)
    THEN [ix |-> i, file |-> file, kind |-> "EOF"]
    ELSE [ix |-> [i EXCEPT !.size = @ + entWidth],
          file |-> SubSeq(file, 1, i.size)
                   \o PutUint32(off) \o PutUint64(pos)
                   \o SubSeq(file, i.size + entWidth + 1, Len(file)),
          kind |-> "ok"]

\* the calls of index.Close, in the order of the code
CloseSteps ==
    <<"mmap.Sync", "mmap.UnsafeUnmap", "file.Sync", "file.Truncate",
      "file.Close">>

\* index.Close without the truncation to the logical size
index_Close_NoTruncate(i, file, fail) ==
    LET n == IF \E k \in 1..Len(CloseSteps) : CloseSteps[k] = fail
             THEN CHOOSE k \in 1..Len(CloseSteps) : CloseSteps[k] = fail
             ELSE Len(CloseSteps)
    IN  [file |-> file, steps |-> SubSeq(CloseSteps, 1, n),
         ok |-> fail \notin {CloseSteps[k] : k \in 1..Len(CloseSteps)}]

\* index.Close that goes on to the next call when one returns an error
index_Close_GoesOn(i, file, fail) ==
    [file |-> IF fail = "file.Truncate" THEN file ELSE Truncate(file, i.size),
     steps |-> CloseSteps,
     ok |-> fail \notin {CloseSteps[k] : k \in 1..Len(CloseSteps)}]

\* index.Close(): [file, steps, ok]; steps are the calls made, the last of
\* them the one that returned an error when fail names it
index_Close(i, file, fail) ==
    IF fail = "mmap.Sync"
    THEN [file |-> file, steps |-> SubSeq(CloseSteps, 1, 1), ok |-> FALSE]
    ELSE IF fail = "mmap.UnsafeUnmap"
    THEN [file |-> file, steps |-> SubSeq(CloseSteps, 1, 2), ok |-> FALSE]
    ELSE IF fail = "file.Sync"
    THEN [file |-> file, steps |-> SubSeq(CloseSteps, 1, 3), ok |-> FALSE]
    ELSE IF fail = "file.Truncate"
    THEN [file |-> file, steps |-> SubSeq(CloseSteps, 1, 4), ok |-> FALSE]
    ELSE [file |-> Truncate(file, i.size), steps |-> CloseSteps,
          ok |-> fail # "file.Close"]

----------------------------------------------------------------------------
(* The segment *)

\* the objects and files a segment operation works on
World == [storeFile |-> storeFile, indexFile |-> indexFile,
          st |-> st, ix |-> ix, seg |-> seg]

\* newSegment that does not recover nextOffset from the index
newSegment_NoRecover(sfile, ifile, baseOffset, c) ==
    LET idx == newIndex(ifile, c)
    IN  [storeFile |-> sfile, indexFile |-> idx.file,
         st |-> newStore(sfile), ix |-> idx.ix,
         seg |-> [baseOffset |-> baseOffset, nextOffset |-> baseOffset,
                  config |-> c]]

\* newSegment(dir, baseOffset, c) on the directory's two files
newSegment(sfile, ifile, baseOffset, c) ==
    LET idx == newIndex(ifile, c)
        last == index_Read(idx.ix, idx.file, MinusOne64)
    IN  [storeFile |-> sfile, indexFile |-> idx.file,
         st |-> newStore(sfile), ix |-> idx.ix,
         seg |-> [baseOffset |-> baseOffset,
                  nextOffset |->
                      IF last.kind # "ok"
                      THEN baseOffset
                      ELSE Add64(Add64(baseOffset, Ext32(last.off)), Wide(1)),
                  config |-> c]]

\* segment.Append that serializes the record without assigning its Offset
segment_Append_NoOffset(w, value, marshalErr, fail) ==
    LET cur == w.seg.nextOffset
        p == Marshal([Value |-> value, Offset |-> Wide(0)])
        a == store_Append(w.st, w.storeFile, p, fail)
        w1 == [w EXCEPT !.st = a.st, !.storeFile = a.file]
        i == index_Write(w.ix, w.indexFile,
                         U32(Sub64(w.seg.nextOffset, w.seg.baseOffset)),
                         Wide(a.pos))
        w2 == [w1 EXCEPT !.ix = i.ix, !.indexFile = i.file]
        none == [w |-> w, kind |-> "marshal", offset |-> Wide(0), p |-> p,
                 stored |-> FALSE, n |-> 0, pos |-> 0]
        done == [none EXCEPT !.stored = TRUE, !.n = a.n, !.pos = a.pos]
    IN  IF marshalErr THEN none
        ELSE IF ~a.ok THEN [none EXCEPT !.w = w1, !.kind = "ioerr"]
        ELSE IF i.kind # "ok" THEN [done EXCEPT !.w = w2, !.kind = i.kind]
        ELSE [done EXCEPT !.w = [w2 EXCEPT !.seg.nextOffset = Add64(@, Wide(1))],
                          !.kind = "ok", !.offset = cur]

\* segment.Append that counts the offset before the index write is known to
\* have succeeded
segment_Append_CountFirst(w, value, marshalErr, fail) ==
    LET cur == w.seg.nextOffset
        p == Marshal([Value |-> value, Offset |-> cur])
        a == store_Append(w.st, w.storeFile, p, fail)
        w1 == [w EXCEPT !.st = a.st, !.storeFile = a.file,
                        !.seg.nextOffset = Add64(@, Wide(1))]
        i == index_Write(w.ix, w.indexFile,
                         U32(Sub64(w.seg.nextOffset, w.seg.baseOffset)),
                         Wide(a.pos))
        w2 == [w1 EXCEPT !.ix = i.ix, !.indexFile = i.file]
        none == [w |-> w, kind |-> "marshal", offset |-> Wide(0), p |-> p,
                 stored |-> FALSE, n |-> 0, pos |-> 0]
        done == [none EXCEPT !.stored = TRUE, !.n = a.n, !.pos = a.pos]
    IN  IF marshalErr THEN none
        ELSE IF ~a.ok THEN [none EXCEPT !.w = w1, !.kind = "ioerr"]
        ELSE IF i.kind # "ok" THEN [done EXCEPT !.w = w2, !.kind = i.kind]
        ELSE [done EXCEPT !.w = w2, !.kind = "ok", !.offset = cur]

\* segment.Append that gives the index the position where the entry ends
segment_Append_EndPosition(w, value, marshalErr, fail) ==
    LET cur == w.seg.nextOffset
        p == Marshal([Value |-> value, Offset |-> cur])
        a == store_Append(w.st, w.storeFile, p, fail)
        w1 == [w EXCEPT !.st = a.st, !.storeFile = a.file]
        i == index_Write(w.ix, w.indexFile,
                         U32(Sub64(w.seg.nextOffset, w.seg.baseOffset)),
                         Wide(a.pos + a.n))
        w2 == [w1 EXCEPT !.ix = i.ix, !.indexFile = i.file]
        none == [w |-> w, kind |-> "marshal", offset |-> Wide(0), p |-> p,
                 stored |-> FALSE, n |-> 0, pos |-> 0]
        done == [none EXCEPT !.stored = TRUE, !.n = a.n, !.pos = a.pos]
    IN  IF marshalErr THEN none
        ELSE IF ~a.ok THEN [none EXCEPT !.w = w1, !.kind = "ioerr"]
        ELSE IF i.kind # "ok" THEN [done EXCEPT !.w = w2, !.kind = i.kind]
        ELSE [done EXCEPT !.w = [w2 EXCEPT !.seg.nextOffset = Add64(@, Wide(1))],
                          !.kind = "ok", !.offset = cur]

\* segment.Append(record): [w, kind, offset], with the bytes p it serialized
\* and what its call of store.Append returned; marshalErr: proto.Marshal
\* returns an error; fail: a write to the store file fails
segment_Append(w, value, marshalErr, fail) ==
    LET cur == w.seg.nextOffset
        p == Marshal([Value |-> value, Offset |-> cur])
        a == store_Append(w.st, w.storeFile, p, fail)
        w1 == [w EXCEPT !.st = a.st, !.storeFile = a.file]
        i == index_Write(w.ix, w.indexFile,
                         U32(Sub64(w.seg.nextOffset, w.seg.baseOffset)),
                         Wide(a.pos))
        w2 == [w1 EXCEPT !.ix = i.ix, !.indexFile = i.file]
        none == [w |-> w, kind |-> "marshal", offset |-> Wide(0), p |-> p,
                 stored |-> FALSE, n |-> 0, pos |-> 0]
        done == [none EXCEPT !.stored = TRUE, !.n = a.n, !.pos = a.pos]
    IN  IF marshalErr THEN none
        ELSE IF ~a.ok THEN [none EXCEPT !.w = w1, !.kind = "ioerr"]
        ELSE IF i.kind # "ok" THEN [done EXCEPT !.w = w2, !.kind = i.kind]
        ELSE [done EXCEPT !.w = [w2 EXCEPT !.seg.nextOffset = Add64(@, Wide(1))],
                          !.kind = "ok", !.offset = cur]

NoRecord == [Value |-> <<>>, Offset |-> Wide(0)]

\* segment.Read(off): [w, kind, rec]
segment_Read(w, off, fail) ==
    LET i == index_Read(w.ix, w.indexFile, Sub64(off, w.seg.baseOffset))
        r == store_Read(w.st, w.storeFile, i.pos, fail)
        w1 == [w EXCEPT !.st = r.st, !.storeFile = r.file]
        u == Unmarshal(r.val)
    IN  IF i.kind # "ok" THEN [w |-> w, kind |-> i.kind, rec |-> NoRecord]
        ELSE IF r.kind # "ok" THEN [w |-> w1, kind |-> r.kind, rec |-> NoRecord]
        ELSE [w |-> w1, kind |-> IF u.ok THEN "ok" ELSE "unmarshal",
              rec |-> u.rec]

\* segment.IsMaxed that asks the index only
segment_IsMaxed_IndexOnly(w) ==
    \/ w.ix.size >= w.seg.config.MaxIndexBytes
    \/ isMaxed(w.ix)

segment_IsMaxed(w) ==
    \/ w.st.size >= w.seg.config.MaxStoreBytes
    \/ w.ix.size >= w.seg.config.MaxIndexBytes
    \/ isMaxed(w.ix)

\* segment.Close(): the index, then the store: [w, steps, ok]; ifail: the
\* call of index.Close that returns an error; fail: the store's flush fails
segment_Close(w, ifail, fail) ==
    LET i == index_Close(w.ix, w.indexFile, ifail)
        w1 == [w EXCEPT !.indexFile = i.file]
        c == store_Close(w1.st, w1.storeFile, fail)
    IN  IF ~i.ok
        THEN [w |-> w1, steps |-> i.steps, ok |-> FALSE]
        ELSE [w |-> [w1 EXCEPT !.st = c.st, !.storeFile = c.file],
              steps |-> i.steps \o <<"store.Close">>, ok |-> c.ok]

\* segment.Remove that deletes the files whether or not Close succeeded
segment_Remove_Regardless(w, d, ifail, fail, rmfail) ==
    LET c == segment_Close(w, ifail, fail)
    IN  [w |-> [c.w EXCEPT !.indexFile = <<>>, !.storeFile = <<>>],
         dir |-> d \ {"index", "store"}, steps |-> c.steps,
         closed |-> c.ok, ok |-> c.ok]

\* segment.Remove(): Close, then os.Remove of the index file, then of the
\* store file: [w, dir, steps, ok]; rmfail: the os.Remove that fails
segment_Remove(w, d, ifail, fail, rmfail) ==
    LET c == segment_Close(w, ifail, fail)
        w1 == [c.w EXCEPT !.indexFile = <<>>]
        w2 == [w1 EXCEPT !.storeFile = <<>>]
        out == [w |-> c.w, dir |-> d, steps |-> c.steps, closed |-> c.ok,
                ok |-> FALSE]
    IN  IF ~c.ok THEN out
        ELSE IF rmfail = "index" THEN out
        ELSE IF rmfail = "store"
        THEN [out EXCEPT !.w = w1, !.dir = d \ {"index"}]
        ELSE [out EXCEPT !.w = w2, !.dir = d \ {"index", "store"},
                         !.ok = TRUE]

----------------------------------------------------------------------------
(* Inputs *)

Hello == <<104, 101, 108, 108, 111>>
World5 == <<119, 111, 114, 108, 100>>
Foo == <<102, 111, 111>>
Values == {Hello, World5, Foo}

TwoTo32 == <<0, 1, 0, 0>>
Bases == {Wide(0), TwoTo32}

Configs ==
    [MaxStoreBytes : {1024},
     MaxIndexBytes : {entWidth * k : k \in 1..MaxEntries}]

\* and a MaxStoreBytes that two records reach, with the largest index
MaxedConfigs ==
    Configs
    \cup {[MaxStoreBytes |-> 32, MaxIndexBytes |-> entWidth * MaxEntries]}

\* offsets asked of segment.Read, as distances from the base offset modulo
\* 2^64: inside the segment, one below the base, and 2^32 away on either side
Deltas ==
    {Wide(k) : k \in 0..MaxEntries}
    \cup {MinusOne64, TwoTo32, Sub64(Wide(0), TwoTo32)}

\* the threads that call into one store or one segment
Threads == {1, 2}
Idle == [pc |-> "idle"]

\* no call in progress, no lock held, and the caller's lock not in use
Alone ==
    /\ mu = 0
    /\ thr = [t \in Threads |-> Idle]
    /\ ext = [on |-> FALSE, holder |-> 0]

----------------------------------------------------------------------------
(* The segment's operations as steps *)

Install(w) ==
    /\ storeFile' = w.storeFile
    /\ indexFile' = w.indexFile
    /\ st' = w.st
    /\ ix' = w.ix
    /\ seg' = w.seg

\* newSegment(dir, b, c) on an empty directory
InitWith(b, c) ==
    \E w \in {newSegment(<<>>, <<>>, b, c)} :
        /\ storeFile = w.storeFile
        /\ indexFile = w.indexFile
        /\ st = w.st
        /\ ix = w.ix
        /\ seg = w.seg
        /\ phase = "open"
        /\ res = [op |-> "newSegment", lost |-> 0]
        /\ appended = <<>>
        /\ stored = <<>>
        /\ written = <<>>
        /\ recovered = FALSE
        /\ dir = {"store", "index"}
        /\ Alone

Init == \E b \in Bases, c \in Configs : InitWith(b, c)

\* entries the store may take: one more than the index has room for, so that
\* the append that finds the index full happens and the run stays finite
MaxStoreAppends == seg.config.MaxIndexBytes \div entWidth + 1

\* one call of segment.Append and the histories it extends
AppendStep(value, marshalErr, fail) ==
    /\ phase = "open"
    /\ Len(stored) < MaxStoreAppends
    /\ \E r \in {segment_Append(World, value, marshalErr, fail)} :
           /\ Install(r.w)
           /\ res' = [op |-> "Append", value |-> value, kind |-> r.kind,
                      offset |-> r.offset]
           /\ appended' = IF r.kind = "ok"
                          THEN Append(appended,
                                      [Value |-> value, Offset |-> r.offset])
                          ELSE appended
           /\ stored' = IF r.stored
                        THEN Append(stored,
                                    [p |-> r.p, pos |-> r.pos, n |-> r.n,
                                     before |-> st.size,
                                     after |-> r.w.st.size])
                        ELSE stored
           /\ written' = IF r.kind = "ok"
                         THEN Append(written,
                                     [off |-> U32(Sub64(seg.nextOffset,
                                                        seg.baseOffset)),
                                      pos |-> Wide(r.pos)])
                         ELSE written
    /\ UNCHANGED <<phase, recovered>>
    /\ UNCHANGED <<dir, threads>>

SegAppend(value) == AppendStep(value, FALSE, FALSE)

ReadStep(off, fail) ==
    /\ phase = "open"
    /\ \E r \in {segment_Read(World, off, fail)} :
           /\ Install(r.w)
           /\ res' = [op |-> "Read", off |-> off, kind |-> r.kind,
                      rec |-> r.rec]
    /\ UNCHANGED <<phase, appended, stored, written, recovered>>
    /\ UNCHANGED <<dir, threads>>

SegRead(off) == ReadStep(off, FALSE)

SegIsMaxed ==
    /\ phase = "open"
    /\ res' = [op |-> "IsMaxed", val |-> segment_IsMaxed(World)]
    /\ UNCHANGED <<storeFile, indexFile, st, ix, seg, phase,
                   appended, stored, written, recovered>>
    /\ UNCHANGED <<dir, threads>>

CloseStep(ifail, fail) ==
    /\ phase = "open"
    /\ \E r \in {segment_Close(World, ifail, fail)} :
           /\ Install(r.w)
           /\ res' = [op |-> "Close", ok |-> r.ok, steps |-> r.steps,
                      ifail |-> ifail]
           /\ phase' = IF r.ok THEN "closed" ELSE "broken"
    /\ UNCHANGED <<appended, stored, written, recovered>>
    /\ UNCHANGED <<dir, threads>>

SegClose == CloseStep("none", FALSE)

\* newSegment again on the same directory, base offset and config
SegReopen ==
    /\ phase = "closed"
    /\ Install(newSegment(storeFile, indexFile, seg.baseOffset, seg.config))
    /\ phase' = "open"
    /\ res' = [op |-> "newSegment", lost |-> 0]
    /\ recovered' = (recovered \/ Len(appended) > 0)
    /\ UNCHANGED <<appended, stored, written>>
    /\ UNCHANGED <<dir, threads>>

Next ==
    \/ \E v \in Values : SegAppend(v)
    \/ \E d \in Deltas : SegRead(Add64(seg.baseOffset, d))
    \/ SegIsMaxed
    \/ SegClose
    \/ SegReopen

Spec == Init /\ [][Next]_vars

----------------------------------------------------------------------------
(* The segment with failing collaborators: proto.Marshal may return an     *)
(* error, and a write to the store file may fail                           *)

SegAppendMarshalErr(value) == AppendStep(value, TRUE, FALSE)
SegAppendWriteErr(value) == AppendStep(value, FALSE, TRUE)

NextIO ==
    \/ \E v \in Values : SegAppend(v)
    \/ \E v \in Values : SegAppendMarshalErr(v)
    \/ \E v \in Values : SegAppendWriteErr(v)
    \/ SegRead(seg.baseOffset)
    \/ SegClose
    \/ SegReopen

SpecIO == Init /\ [][NextIO]_vars

----------------------------------------------------------------------------
(* The segment polled for capacity, with a MaxStoreBytes within reach       *)

InitMaxed == \E b \in Bases, c \in MaxedConfigs : InitWith(b, c)

NextMaxed ==
    \/ \E v \in Values : SegAppend(v)
    \/ SegIsMaxed
    \/ SegClose
    \/ SegReopen

SpecMaxed == InitMaxed /\ [][NextMaxed]_vars

----------------------------------------------------------------------------
(* The segment's writes alone: Append, Close and newSegment again, with a   *)
(* Read of the first record that flushes the store's buffer                 *)

NextCore ==
    \/ \E v \in Values : SegAppend(v)
    \/ SegRead(seg.baseOffset)
    \/ SegClose
    \/ SegReopen

SpecCore == Init /\ [][NextCore]_vars

----------------------------------------------------------------------------
(* The segment's end of life: Close with an error from any of its calls,    *)
(* Remove, and a new segment on the directory afterwards                    *)

\* Close with an error from one of index.Close's calls, or from the store's
\* flush
SegCloseIndexErr(step) == CloseStep(step, FALSE)
SegCloseStoreErr == CloseStep("none", TRUE)

\* one call of segment.Remove
RemoveStep(ifail, fail, rmfail) ==
    /\ phase = "open"
    /\ \E r \in {segment_Remove(World, dir, ifail, fail, rmfail)} :
           /\ Install(r.w)
           /\ dir' = r.dir
           /\ res' = [op |-> "Remove", ok |-> r.ok, steps |-> r.steps,
                      closed |-> r.closed]
           /\ phase' = IF r.ok THEN "removed" ELSE "broken"
    /\ UNCHANGED <<appended, stored, written, recovered, threads>>

SegRemove == RemoveStep("none", FALSE, "none")
SegRemoveCloseErr(step) == RemoveStep(step, FALSE, "none")
SegRemoveStoreErr == RemoveStep("none", TRUE, "none")
SegRemoveDeleteErr(file) == RemoveStep("none", FALSE, file)

\* newSegment on the directory after Remove, same base offset and config:
\* both files are created anew, and the histories start over with them
SegRecreate ==
    /\ phase = "removed"
    /\ Install(newSegment(storeFile, indexFile, seg.baseOffset, seg.config))
    /\ dir' = {"store", "index"}
    /\ phase' = "open"
    /\ res' = [op |-> "newSegment", lost |-> Len(appended)]
    /\ appended' = <<>>
    /\ stored' = <<>>
    /\ written' = <<>>
    /\ recovered' = FALSE
    /\ UNCHANGED threads

NextLife ==
    \/ \E v \in Values : SegAppend(v)
    \/ SegRead(seg.baseOffset)
    \/ SegClose
    \/ \E k \in 1..Len(CloseSteps) : SegCloseIndexErr(CloseSteps[k])
    \/ SegCloseStoreErr
    \/ SegReopen
    \/ SegRemove
    \/ \E k \in 1..Len(CloseSteps) : SegRemoveCloseErr(CloseSteps[k])
    \/ SegRemoveStoreErr
    \/ \E f \in {"index", "store"} : SegRemoveDeleteErr(f)
    \/ SegRecreate

SpecLife == Init /\ [][NextLife]_vars

----------------------------------------------------------------------------
(* The store on its own file *)

Payloads == {<<>>, Hello, Marshal([Value |-> Foo, Offset |-> TwoTo32])}

\* positions asked of store.Read: every position an Append returned, inside
\* an entry, the end of the store and beyond, and positions past 2^63
Positions ==
    {Wide(e.pos) : e \in {stored[i] : i \in 1..Len(stored)}}
    \cup {Wide(1), Wide(st.size), Wide(st.size + 1), MinusOne64,
          <<HalfLimb, 0, 0, 0>>}

NoSegment == [baseOffset |-> Wide(0), nextOffset |-> Wide(0),
              config |-> [MaxStoreBytes |-> 0, MaxIndexBytes |-> 0]]

InitStore ==
    /\ storeFile = <<>>
    /\ indexFile = <<>>
    /\ st = newStore(<<>>)
    /\ ix = [size |-> 0, mapLen |-> 0]
    /\ seg = NoSegment
    /\ phase = "open"
    /\ res = [op |-> "newStore"]
    /\ appended = <<>>
    /\ stored = <<>>
    /\ written = <<>>
    /\ recovered = FALSE
    /\ dir = {"store"}
    /\ Alone

StoreAppend(p) ==
    /\ phase = "open"
    /\ Len(stored) < MaxEntries
    /\ \E a \in {store_Append(st, storeFile, p, FALSE)} :
           /\ st' = a.st
           /\ storeFile' = a.file
           /\ res' = [op |-> "StoreAppend", ok |-> a.ok, n |-> a.n,
                      pos |-> a.pos]
           /\ stored' = IF a.ok
                        THEN Append(stored,
                                    [p |-> p, pos |-> a.pos, n |-> a.n,
                                     before |-> st.size, after |-> a.st.size])
                        ELSE stored
    /\ UNCHANGED <<indexFile, ix, seg, phase, appended, written, recovered>>
    /\ UNCHANGED <<dir, threads>>

StoreRead(pos) ==
    /\ phase = "open"
    /\ \E r \in {store_Read(st, storeFile, pos, FALSE)} :
           /\ st' = r.st
           /\ storeFile' = r.file
           /\ res' = [op |-> "StoreRead", pos |-> pos, kind |-> r.kind,
                      val |-> r.val, flushed |-> Len(st.buf)]
    /\ UNCHANGED <<indexFile, ix, seg, phase, appended, stored, written,
                   recovered>>
    /\ UNCHANGED <<dir, threads>>

StoreClose ==
    /\ phase = "open"
    /\ \E c \in {store_Close(st, storeFile, FALSE)} :
           /\ st' = c.st
           /\ storeFile' = c.file
           /\ res' = [op |-> "StoreClose", ok |-> c.ok]
           /\ phase' = IF c.ok THEN "closed" ELSE "broken"
    /\ UNCHANGED <<indexFile, ix, seg, appended, stored, written, recovered>>
    /\ UNCHANGED <<dir, threads>>

StoreReopen ==
    /\ phase = "closed"
    /\ st' = newStore(storeFile)
    /\ phase' = "open"
    /\ res' = [op |-> "newStore"]
    /\ recovered' = (recovered \/ Len(stored) > 0)
    /\ UNCHANGED <<storeFile, indexFile, ix, seg, appended, stored, written>>
    /\ UNCHANGED <<dir, threads>>

NextStore ==
    \/ \E p \in Payloads : StoreAppend(p)
    \/ \E pos \in Positions : StoreRead(pos)
    \/ StoreClose
    \/ StoreReopen

SpecStore == InitStore /\ [][NextStore]_vars

----------------------------------------------------------------------------
(* The store under concurrent callers: each thread is in at most one call,  *)
(* and takes one step of it at a time; s.mu.Lock() blocks while another     *)
(* thread holds the mutex, and the deferred s.mu.Unlock() runs at return    *)

\* s.mu.Lock() that never blocks
Locked_Never(m) == FALSE

\* s.mu.Lock() blocks while the mutex is held
Locked(m) == m # 0

\* calls of store.Append in progress
Appending == {t \in Threads : thr[t].pc # "idle" /\ thr[t].op = "Append"}

\* thread t calls store.Append(p)
CallAppend(t, p) ==
    /\ thr[t].pc = "idle"
    /\ Len(stored) + Cardinality(Appending) < MaxEntries
    /\ thr' = [thr EXCEPT ![t] = [pc |-> "Lock", op |-> "Append", p |-> p,
                                  pos |-> 0, w |-> 0]]
    /\ UNCHANGED <<storeFile, indexFile, st, ix, seg, phase, res, appended,
                   stored, written, recovered, dir, mu, ext>>

\* thread t calls store.Read(pos)
CallRead(t, pos) ==
    /\ thr[t].pc = "idle"
    /\ thr' = [thr EXCEPT ![t] = [pc |-> "Lock", op |-> "Read", pos |-> pos,
                                  size |-> <<>>, kind |-> "ok",
                                  val |-> <<>>]]
    /\ UNCHANGED <<storeFile, indexFile, st, ix, seg, phase, res, appended,
                   stored, written, recovered, dir, mu, ext>>

\* s.mu.Lock()
Lock(t) ==
    /\ thr[t].pc = "Lock"
    /\ ~Locked(mu)
    /\ mu' = t
    /\ thr' = [thr EXCEPT ![t].pc = IF thr[t].op = "Append"
                                    THEN "Append.pos" ELSE "Read.flush"]
    /\ UNCHANGED <<storeFile, indexFile, st, ix, seg, phase, res, appended,
                   stored, written, recovered, dir, ext>>

\* pos = s.size
AppendPos(t) ==
    /\ thr[t].pc = "Append.pos"
    /\ thr' = [thr EXCEPT ![t].pos = st.size, ![t].pc = "Append.len"]
    /\ UNCHANGED <<storeFile, indexFile, st, ix, seg, phase, res, appended,
                   stored, written, recovered, dir, mu, ext>>

\* binary.Write(s.buf, enc, uint64(len(p)))
AppendLen(t) ==
    /\ thr[t].pc = "Append.len"
    /\ \E w \in {BufWrite([file |-> storeFile, buf |-> st.buf,
                            err |-> st.err],
                           PutUint64(Wide(Len(thr[t].p))), FALSE)} :
           /\ st' = [st EXCEPT !.buf = w.buf, !.err = w.err]
           /\ storeFile' = w.file
    /\ thr' = [thr EXCEPT ![t].pc = "Append.data"]
    /\ UNCHANGED <<indexFile, ix, seg, phase, res, appended, stored, written,
                   recovered, dir, mu, ext>>

\* w, err := s.buf.Write(p)
AppendData(t) ==
    /\ thr[t].pc = "Append.data"
    /\ \E w \in {BufWrite([file |-> storeFile, buf |-> st.buf,
                            err |-> st.err], thr[t].p, FALSE)} :
           /\ st' = [st EXCEPT !.buf = w.buf, !.err = w.err]
           /\ storeFile' = w.file
    /\ thr' = [thr EXCEPT ![t].w = Len(thr[t].p), ![t].pc = "Append.size"]
    /\ UNCHANGED <<indexFile, ix, seg, phase, res, appended, stored, written,
                   recovered, dir, mu, ext>>

\* w += lenWidth; s.size += uint64(w)
AppendSize(t) ==
    /\ thr[t].pc = "Append.size"
    /\ st' = [st EXCEPT !.size = @ + (thr[t].w + lenWidth)]
    /\ thr' = [thr EXCEPT ![t].w = @ + lenWidth, ![t].pc = "Append.return"]
    /\ UNCHANGED <<storeFile, indexFile, ix, seg, phase, res, appended,
                   stored, written, recovered, dir, mu, ext>>

\* return uint64(w), pos, nil, and the deferred s.mu.Unlock()
AppendReturn(t) ==
    /\ thr[t].pc = "Append.return"
    /\ mu' = 0
    /\ thr' = [thr EXCEPT ![t] = Idle]
    /\ res' = [op |-> "StoreAppend", ok |-> TRUE, n |-> thr[t].w,
               pos |-> thr[t].pos]
    /\ stored' = Append(stored, [p |-> thr[t].p, pos |-> thr[t].pos,
                                 n |-> thr[t].w, before |-> thr[t].pos,
                                 after |-> st.size])
    /\ UNCHANGED <<storeFile, indexFile, st, ix, seg, phase, appended,
                   written, recovered, dir, ext>>

\* s.buf.Flush()
ReadFlush(t) ==
    /\ thr[t].pc = "Read.flush"
    /\ \E w \in {BufFlush([file |-> storeFile, buf |-> st.buf,
                            err |-> st.err], FALSE)} :
           /\ st' = [st EXCEPT !.buf = w.buf, !.err = w.err]
           /\ storeFile' = w.file
    /\ thr' = [thr EXCEPT ![t].pc = "Read.size"]
    /\ UNCHANGED <<indexFile, ix, seg, phase, res, appended, stored, written,
                   recovered, dir, mu, ext>>

\* s.File.ReadAt(size, int64(pos))
ReadSize(t) ==
    /\ thr[t].pc = "Read.size"
    /\ \E r \in {ReadAt(storeFile, lenWidth, thr[t].pos)} :
           thr' = [thr EXCEPT ![t].size = r.val, ![t].kind = r.kind,
                              ![t].pc = IF r.kind = "ok"
                                        THEN "Read.body" ELSE "Read.return"]
    /\ UNCHANGED <<storeFile, indexFile, st, ix, seg, phase, res, appended,
                   stored, written, recovered, dir, mu, ext>>

\* b := make([]byte, enc.Uint64(size)); s.File.ReadAt(b, int64(pos+lenWidth))
ReadBody(t) ==
    /\ thr[t].pc = "Read.body"
    /\ \E n \in {Uint64(thr[t].size)} :
           \E r \in {IF Fits(n)
                     THEN ReadAt(storeFile, Nat64(n),
                                 Add64(thr[t].pos, Wide(lenWidth)))
                     ELSE [kind |-> "alloc", val |-> <<>>]} :
               thr' = [thr EXCEPT ![t].val = r.val, ![t].kind = r.kind,
                                  ![t].pc = "Read.return"]
    /\ UNCHANGED <<storeFile, indexFile, st, ix, seg, phase, res, appended,
                   stored, written, recovered, dir, mu, ext>>

\* return b, nil (or nil, err), and the deferred s.mu.Unlock()
ReadReturn(t) ==
    /\ thr[t].pc = "Read.return"
    /\ mu' = 0
    /\ thr' = [thr EXCEPT ![t] = Idle]
    /\ res' = [op |-> "StoreRead", pos |-> thr[t].pos, kind |-> thr[t].kind,
               val |-> thr[t].val, flushed |-> 0]
    /\ UNCHANGED <<storeFile, indexFile, st, ix, seg, phase, appended,
                   stored, written, recovered, dir, ext>>

\* positions that store.Append has returned
Returned == {Wide(stored[i].pos) : i \in 1..Len(stored)}

NextStoreConc ==
    \E t \in Threads :
        \/ \E p \in Payloads : CallAppend(t, p)
        \/ \E pos \in Returned : CallRead(t, pos)
        \/ Lock(t)
        \/ AppendPos(t)
        \/ AppendLen(t)
        \/ AppendData(t)
        \/ AppendSize(t)
        \/ AppendReturn(t)
        \/ ReadFlush(t)
        \/ ReadSize(t)
        \/ ReadBody(t)
        \/ ReadReturn(t)

SpecStoreConc == InitStore /\ [][NextStoreConc]_vars

----------------------------------------------------------------------------
(* The segment under concurrent callers of Append.  The segment and the     *)
(* index take no lock, so a thread's reads and writes of s.nextOffset,      *)
(* i.size and the mapping are steps of their own; store.Append is one step, *)
(* under the store's mutex.  With ext.on the callers serialize their calls  *)
(* with a lock of their own around segment.Append.  Each thread makes one   *)
(* call.                                                                    *)

\* the callers' lock is held
Held(e) == e.holder # 0

InitSegConc ==
    \E b \in Bases, c \in Configs, on \in BOOLEAN :
        \E w \in {newSegment(<<>>, <<>>, b, c)} :
            /\ storeFile = w.storeFile
            /\ indexFile = w.indexFile
            /\ st = w.st
            /\ ix = w.ix
            /\ seg = w.seg
            /\ phase = "open"
            /\ res = [op |-> "newSegment", lost |-> 0]
            /\ appended = <<>>
            /\ stored = <<>>
            /\ written = <<>>
            /\ recovered = FALSE
            /\ dir = {"store", "index"}
            /\ mu = 0
            /\ thr = [t \in Threads |-> Idle]
            /\ ext = [on |-> on, holder |-> 0]

\* a thread that has made its call
Done == [pc |-> "done"]

\* thread t calls segment.Append(record) with record.Value = value; each
\* thread makes one call
SegCall(t, value) ==
    /\ phase = "open"
    /\ thr[t].pc = "idle"
    /\ thr' = [thr EXCEPT ![t] =
                  [pc |-> IF ext.on THEN "seg.lock" ELSE "seg.cur",
                   value |-> value, cur |-> Wide(0), p |-> <<>>, pos |-> 0,
                   off |-> <<0, 0>>, load |-> 0, next |-> Wide(0)]]
    /\ UNCHANGED <<storeFile, indexFile, st, ix, seg, phase, res, appended,
                   stored, written, recovered, dir, mu, ext>>

\* the callers' lock is taken before the call
SegLock(t) ==
    /\ phase = "open"
    /\ thr[t].pc = "seg.lock"
    /\ ~Held(ext)
    /\ ext' = [ext EXCEPT !.holder = t]
    /\ thr' = [thr EXCEPT ![t].pc = "seg.cur"]
    /\ UNCHANGED <<storeFile, indexFile, st, ix, seg, phase, res, appended,
                   stored, written, recovered, dir, mu>>

\* cur := s.nextOffset; record.Offset = cur; p, err := proto.Marshal(record)
SegCur(t) ==
    /\ phase = "open"
    /\ thr[t].pc = "seg.cur"
    /\ thr' = [thr EXCEPT
                  ![t].cur = seg.nextOffset,
                  ![t].p = Marshal([Value |-> thr[t].value,
                                    Offset |-> seg.nextOffset]),
                  ![t].pc = "seg.store"]
    /\ UNCHANGED <<storeFile, indexFile, st, ix, seg, phase, res, appended,
                   stored, written, recovered, dir, mu, ext>>

\* _, pos, err := s.store.Append(p)
SegStore(t) ==
    /\ phase = "open"
    /\ thr[t].pc = "seg.store"
    /\ \E a \in {store_Append(st, storeFile, thr[t].p, FALSE)} :
           /\ st' = a.st
           /\ storeFile' = a.file
           /\ stored' = Append(stored, [p |-> thr[t].p, pos |-> a.pos,
                                        n |-> a.n, before |-> st.size,
                                        after |-> a.st.size])
           /\ thr' = [thr EXCEPT ![t].pos = a.pos, ![t].pc = "seg.off"]
    /\ UNCHANGED <<indexFile, ix, seg, phase, res, appended, written,
                   recovered, dir, mu, ext>>

\* the argument uint32(s.nextOffset - uint64(s.baseOffset)) of index.Write
SegOff(t) ==
    /\ phase = "open"
    /\ thr[t].pc = "seg.off"
    /\ thr' = [thr EXCEPT
                  ![t].off = U32(Sub64(seg.nextOffset, seg.baseOffset)),
                  ![t].pc = "idx.maxed"]
    /\ UNCHANGED <<storeFile, indexFile, st, ix, seg, phase, res, appended,
                   stored, written, recovered, dir, mu, ext>>

\* if i.isMaxed() { return io.EOF }
IdxMaxed(t) ==
    /\ phase = "open"
    /\ thr[t].pc = "idx.maxed"
    /\ thr' = [thr EXCEPT ![t].pc = IF isMaxed(ix)
                                    THEN "seg.fail" ELSE "idx.off"]
    /\ UNCHANGED <<storeFile, indexFile, st, ix, seg, phase, res, appended,
                   stored, written, recovered, dir, mu, ext>>

\* the mapping with bytes b put at [at, at + Len(b))
Put(file, at, b) ==
    SubSeq(file, 1, at) \o b \o SubSeq(file, at + Len(b) + 1, Len(file))

\* enc.PutUint32(i.mmap[i.size:i.size+offWidth], off); a slice beyond the
\* mapping panics
IdxPutOff(t) ==
    /\ phase = "open"
    /\ thr[t].pc = "idx.off"
    /\ IF ix.size + offWidth <= ix.mapLen
       THEN /\ indexFile' = Put(indexFile, ix.size, PutUint32(thr[t].off))
            /\ thr' = [thr EXCEPT ![t].pc = "idx.pos"]
            /\ UNCHANGED <<phase, res>>
       ELSE /\ phase' = "broken"
            /\ res' = [op |-> "Append", kind |-> "panic"]
            /\ UNCHANGED <<indexFile, thr>>
    /\ UNCHANGED <<storeFile, st, ix, seg, appended, stored, written,
                   recovered, dir, mu, ext>>

\* enc.PutUint64(i.mmap[i.size+offWidth:i.size+entWidth], pos)
IdxPutPos(t) ==
    /\ phase = "open"
    /\ thr[t].pc = "idx.pos"
    /\ IF ix.size + entWidth <= ix.mapLen
       THEN /\ indexFile' = Put(indexFile, ix.size + offWidth,
                                PutUint64(Wide(thr[t].pos)))
            /\ thr' = [thr EXCEPT ![t].pc = "idx.load"]
            /\ UNCHANGED <<phase, res>>
       ELSE /\ phase' = "broken"
            /\ res' = [op |-> "Append", kind |-> "panic"]
            /\ UNCHANGED <<indexFile, thr>>
    /\ UNCHANGED <<storeFile, st, ix, seg, appended, stored, written,
                   recovered, dir, mu, ext>>

\* i.size += uint64(entWidth): the read of i.size
IdxSizeLoad(t) ==
    /\ phase = "open"
    /\ thr[t].pc = "idx.load"
    /\ thr' = [thr EXCEPT ![t].load = ix.size, ![t].pc = "idx.size"]
    /\ UNCHANGED <<storeFile, indexFile, st, ix, seg, phase, res, appended,
                   stored, written, recovered, dir, mu, ext>>

\* i.size += uint64(entWidth): the write of i.size
IdxSizeStore(t) ==
    /\ phase = "open"
    /\ thr[t].pc = "idx.size"
    /\ ix' = [ix EXCEPT !.size = thr[t].load + entWidth]
    /\ thr' = [thr EXCEPT ![t].pc = "seg.load"]
    /\ UNCHANGED <<storeFile, indexFile, st, seg, phase, res, appended,
                   stored, written, recovered, dir, mu, ext>>

\* s.nextOffset++: the read of s.nextOffset
SegNextLoad(t) ==
    /\ phase = "open"
    /\ thr[t].pc = "seg.load"
    /\ thr' = [thr EXCEPT ![t].next = seg.nextOffset, ![t].pc = "seg.next"]
    /\ UNCHANGED <<storeFile, indexFile, st, ix, seg, phase, res, appended,
                   stored, written, recovered, dir, mu, ext>>

\* s.nextOffset++ left out
SegNextStore_NoIncrement(t) ==
    /\ phase = "open"
    /\ thr[t].pc = "seg.next"
    /\ thr' = [thr EXCEPT ![t].pc = "seg.return"]
    /\ UNCHANGED <<storeFile, indexFile, st, ix, seg, phase, res, appended,
                   stored, written, recovered, dir, mu, ext>>

\* s.nextOffset++: the write of s.nextOffset
SegNextStore(t) ==
    /\ phase = "open"
    /\ thr[t].pc = "seg.next"
    /\ seg' = [seg EXCEPT !.nextOffset = Add64(thr[t].next, Wide(1))]
    /\ thr' = [thr EXCEPT ![t].pc = "seg.return"]
    /\ UNCHANGED <<storeFile, indexFile, st, ix, phase, res, appended,
                   stored, written, recovered, dir, mu, ext>>

\* return cur, nil; the callers' lock is released after the call
SegReturn(t) ==
    /\ phase = "open"
    /\ thr[t].pc = "seg.return"
    /\ thr' = [thr EXCEPT ![t] = Done]
    /\ ext' = [ext EXCEPT !.holder = 0]
    /\ res' = [op |-> "Append", value |-> thr[t].value, kind |-> "ok",
               offset |-> thr[t].cur]
    /\ appended' = Append(appended, [Value |-> thr[t].value,
                                     Offset |-> thr[t].cur])
    /\ UNCHANGED <<storeFile, indexFile, st, ix, seg, phase, stored, written,
                   recovered, dir, mu>>

\* return 0, err (io.EOF from index.Write)
SegFail(t) ==
    /\ phase = "open"
    /\ thr[t].pc = "seg.fail"
    /\ thr' = [thr EXCEPT ![t] = Done]
    /\ ext' = [ext EXCEPT !.holder = 0]
    /\ res' = [op |-> "Append", value |-> thr[t].value, kind |-> "EOF",
               offset |-> Wide(0)]
    /\ UNCHANGED <<storeFile, indexFile, st, ix, seg, phase, appended,
                   stored, written, recovered, dir, mu>>

NextSegConc ==
    \E t \in Threads :
        \/ \E v \in {Hello, Foo} : SegCall(t, v)
        \/ SegLock(t)
        \/ SegCur(t)
        \/ SegStore(t)
        \/ SegOff(t)
        \/ IdxMaxed(t)
        \/ IdxPutOff(t)
        \/ IdxPutPos(t)
        \/ IdxSizeLoad(t)
        \/ IdxSizeStore(t)
        \/ SegNextLoad(t)
        \/ SegNextStore(t)
        \/ SegReturn(t)
        \/ SegFail(t)

SpecSegConc == InitSegConc /\ [][NextSegConc]_vars

----------------------------------------------------------------------------
(* The index on its own file *)

EntryOffs == {<<0, 0>>, <<1, 7>>}
EntryPoss == {Wide(21), <<1, 0, 0, 3>>}

\* entry numbers asked of index.Read, as int64 bit patterns: 0..MaxEntries,
\* -1, -2, 2^32, 2^32 + 1 and -2^32
EntryNumbers ==
    {Wide(k) : k \in 0..MaxEntries}
    \cup {MinusOne64, Sub64(Wide(0), Wide(2)), TwoTo32,
          Add64(TwoTo32, Wide(1)), Sub64(Wide(0), TwoTo32)}

InitIndex ==
    \E k \in 1..MaxEntries :
        LET c == [MaxStoreBytes |-> 0, MaxIndexBytes |-> entWidth * k]
            n == newIndex(<<>>, c)
        IN  /\ storeFile = <<>>
            /\ indexFile = n.file
            /\ st = newStore(<<>>)
            /\ ix = n.ix
            /\ seg = [NoSegment EXCEPT !.config = c]
            /\ phase = "open"
            /\ res = [op |-> "newIndex"]
            /\ appended = <<>>
            /\ stored = <<>>
            /\ written = <<>>
            /\ recovered = FALSE
            /\ dir = {"index"}
            /\ Alone

IndexWrite(off, pos) ==
    /\ phase = "open"
    /\ \E w \in {index_Write(ix, indexFile, off, pos)} :
           /\ ix' = w.ix
           /\ indexFile' = w.file
           /\ res' = [op |-> "IndexWrite", kind |-> w.kind, off |-> off,
                      pos |-> pos]
           /\ written' = IF w.kind = "ok"
                         THEN Append(written, [off |-> off, pos |-> pos])
                         ELSE written
    /\ UNCHANGED <<storeFile, st, seg, phase, appended, stored, recovered>>
    /\ UNCHANGED <<dir, threads>>

IndexRead(in) ==
    /\ phase = "open"
    /\ \E r \in {index_Read(ix, indexFile, in)} :
           res' = [op |-> "IndexRead", in |-> in, kind |-> r.kind,
                   off |-> r.off, pos |-> r.pos]
    /\ UNCHANGED <<storeFile, indexFile, st, ix, seg, phase,
                   appended, stored, written, recovered>>
    /\ UNCHANGED <<dir, threads>>

IndexClose ==
    /\ phase = "open"
    /\ indexFile' = index_Close(ix, indexFile, "none").file
    /\ phase' = "closed"
    /\ res' = [op |-> "IndexClose"]
    /\ UNCHANGED <<storeFile, st, ix, seg, appended, stored, written,
                   recovered>>
    /\ UNCHANGED <<dir, threads>>

IndexReopen ==
    /\ phase = "closed"
    /\ \E n \in {newIndex(indexFile, seg.config)} :
           /\ ix' = n.ix
           /\ indexFile' = n.file
    /\ phase' = "open"
    /\ res' = [op |-> "newIndex"]
    /\ recovered' = (recovered \/ Len(written) > 0)
    /\ UNCHANGED <<storeFile, st, seg, appended, stored, written>>
    /\ UNCHANGED <<dir, threads>>

NextIndex ==
    \/ \E off \in EntryOffs, pos \in EntryPoss : IndexWrite(off, pos)
    \/ \E in \in EntryNumbers : IndexRead(in)
    \/ IndexClose
    \/ IndexReopen

SpecIndex == InitIndex /\ [][NextIndex]_vars

----------------------------------------------------------------------------
(* The index over several opens of its file: an open may end without Close  *)
(* (the process exits and the file stays at its allocated length), and the  *)
(* next open may come with another MaxIndexBytes                            *)

\* capacities: whole numbers of entries, and one that is not
IndexCapacities ==
    {entWidth * k : k \in 1..MaxEntries} \cup {entWidth + posWidth}

IndexConfigs == [MaxStoreBytes : {0}, MaxIndexBytes : IndexCapacities]

InitIndexLife ==
    \E c \in IndexConfigs :
        \E n \in {newIndex(<<>>, c)} :
            /\ storeFile = <<>>
            /\ indexFile = n.file
            /\ st = newStore(<<>>)
            /\ ix = n.ix
            /\ seg = [NoSegment EXCEPT !.config = c]
            /\ phase = "open"
            /\ res = [op |-> "newIndex", had |-> 0]
            /\ appended = <<>>
            /\ stored = <<>>
            /\ written = <<>>
            /\ recovered = FALSE
            /\ dir = {"index"}
            /\ Alone

\* the open ends without index.Close: nothing is truncated, and what was
\* written through the shared mapping is in the file
IndexAbandon ==
    /\ phase = "open"
    /\ phase' = "closed"
    /\ res' = [op |-> "IndexAbandon"]
    /\ UNCHANGED <<storeFile, indexFile, st, ix, seg, appended, stored,
                   written, recovered>>
    /\ UNCHANGED <<dir, threads>>

\* newIndex on the file as the last open left it, with config c
IndexReopenWith(c) ==
    /\ phase = "closed"
    /\ \E n \in {newIndex(indexFile, c)} :
           /\ ix' = n.ix
           /\ indexFile' = n.file
    /\ seg' = [seg EXCEPT !.config = c]
    /\ phase' = "open"
    /\ res' = [op |-> "newIndex", had |-> Len(indexFile)]
    /\ recovered' = TRUE
    /\ UNCHANGED <<storeFile, st, appended, stored, written>>
    /\ UNCHANGED <<dir, threads>>

\* index.Write, at most MaxEntries times over all the opens
LifeWrite(off, pos) ==
    /\ Len(written) < MaxEntries
    /\ IndexWrite(off, pos)

\* the entries written, and the entry numbers read: the first entries and -1
LifeEntries == {<<<<0, 0>>, Wide(21)>>, <<<<1, 7>>, <<1, 0, 0, 3>>>>}
LifeEntryNumbers == {Wide(0), Wide(1), MinusOne64}

NextIndexLife ==
    \/ \E e \in LifeEntries : LifeWrite(e[1], e[2])
    \/ \E in \in LifeEntryNumbers : IndexRead(in)
    \/ IndexClose
    \/ IndexAbandon
    \/ \E c \in IndexConfigs : IndexReopenWith(c)

SpecIndexLife == InitIndexLife /\ [][NextIndexLife]_vars

----------------------------------------------------------------------------
(* Claims *)

InRange(off) == Le64(seg.baseOffset, off) /\ Lt64(off, seg.nextOffset)

\* C1: a Read of an offset below baseOffset or at or beyond nextOffset fails
\* with end-of-data and returns no record.
C1_OutOfRangeReadFails ==
    (res.op = "Read" /\ ~InRange(res.off)) => res.kind = "EOF"

\* C2: a Read of an offset that an earlier Append returned gives back the
\* appended Value with that Offset, whatever was appended in between.
C2_RoundTrip ==
    res.op = "Read" =>
        \A i \in 1..Len(appended) :
            appended[i].Offset = res.off =>
                res.kind = "ok" /\ res.rec = appended[i]

C2_Witness ==
    /\ res.op = "Read"
    /\ ~recovered
    /\ Len(appended) >= 2
    /\ res.off = appended[1].Offset
    /\ res.kind = "ok"
    /\ res.rec = appended[1]

\* C3: the offsets returned by the successful Appends are baseOffset,
\* baseOffset + 1, ... in call order, across any number of Close and reopen.
C3_Monotonic ==
    \A i \in 1..Len(appended) :
        appended[i].Offset = Add64(seg.baseOffset, Wide(i - 1))

C3_Witness ==
    /\ recovered
    /\ res.op = "Append"
    /\ res.kind = "ok"
    /\ Len(appended) >= 2

\* C4: a segment constructed on the files left by N appends and a Close has
\* nextOffset = baseOffset + N, and reads every one of the N records back at
\* its offset.
C4_Recovery ==
    res.op = "newSegment" =>
        /\ seg.nextOffset = Add64(seg.baseOffset, Wide(Len(appended)))
        /\ \A i \in 1..Len(appended) :
               LET r == segment_Read(World, appended[i].Offset, FALSE)
               IN  r.kind = "ok" /\ r.rec = appended[i]

C4_Witness ==
    /\ res.op = "newSegment"
    /\ recovered
    /\ Len(appended) >= 2

\* C5: with MaxIndexBytes = 12 * K the first K Appends succeed, IsMaxed is
\* true once K records are in, and the next Append fails with end-of-data.
C5_Capacity ==
    LET K == seg.config.MaxIndexBytes \div entWidth
    IN  seg.config.MaxIndexBytes = entWidth * K =>
            /\ res.op = "Append" =>
                   IF res.kind = "ok"
                   THEN Len(appended) <= K
                   ELSE Len(appended) = K /\ res.kind = "EOF"
            /\ (phase = "open" /\ Len(appended) = K) => segment_IsMaxed(World)
            /\ (res.op = "IsMaxed" /\ Len(appended) = K) => res.val

C5_Witness ==
    /\ ~recovered
    /\ seg.baseOffset = Wide(0)
    /\ seg.config.MaxIndexBytes = 36
    /\ appended = <<[Value |-> Hello, Offset |-> Wide(0)],
                    [Value |-> World5, Offset |-> Wide(1)],
                    [Value |-> Foo, Offset |-> Wide(2)]>>
    /\ segment_IsMaxed(World)
    /\ res.op = "Append"
    /\ res.kind = "EOF"

\* C6: an Append that returns an error leaves nextOffset as it was, and one
\* that fails in serialization leaves the store and the index as they were.
C6_FailedAppendKeepsCounter ==
    [][(res'.op = "Append" /\ res'.kind # "ok") =>
          /\ seg'.nextOffset = seg.nextOffset
          /\ res'.kind = "marshal" =>
                 /\ st'.size = st.size
                 /\ ix'.size = ix.size
                 /\ storeFile' = storeFile
                 /\ indexFile' = indexFile]_vars

C6_Witness ==
    /\ res.op = "Append"
    /\ res.kind = "ioerr"
    /\ Len(appended) >= 1

\* C7: while the segment is open, nextOffset - baseOffset is the number of
\* 12-byte entries in the index's logical size.
C7_RecordCount ==
    phase = "open" =>
        Sub64(seg.nextOffset, seg.baseOffset) = Wide(ix.size \div entWidth)

C7_Witness ==
    /\ phase = "open"
    /\ recovered
    /\ res.op = "Append"
    /\ res.kind = "EOF"
    /\ Len(appended) >= 2

\* C8: every successful store.Append(p) returns 8 + len(p) bytes written and
\* the size before the call as position, and grows the size by 8 + len(p);
\* successive positions increase, each the previous position plus the
\* previous bytes written.
C8_StoreAppendAccounting ==
    /\ \A i \in 1..Len(stored) :
           LET e == stored[i]
           IN  /\ e.n = lenWidth + Len(e.p)
               /\ e.pos = e.before
               /\ e.after = e.before + lenWidth + Len(e.p)
               /\ i > 1 => /\ e.pos > stored[i - 1].pos
                           /\ e.pos = stored[i - 1].pos + stored[i - 1].n
    /\ (res.op = "StoreAppend" /\ res.ok) => st.size = res.pos + res.n

C8_Witness ==
    /\ res.op = "StoreAppend"
    /\ res.ok
    /\ Len(stored) >= 3
    /\ \E i \in 1..Len(stored) : stored[i].p = <<>>

\* C9: store.Read of a position an Append returned gives exactly the bytes
\* appended there, flushed or not, and a position at or beyond the store's
\* size fails with an I/O error.
C9_ReadAfterWrite ==
    res.op = "StoreRead" =>
        /\ \A i \in 1..Len(stored) :
               Wide(stored[i].pos) = res.pos =>
                   res.kind = "ok" /\ res.val = stored[i].p
        /\ Le64(Wide(st.size), res.pos) => res.kind \in {"EOF", "ioerr"}

C9_Witness ==
    /\ res.op = "StoreRead"
    /\ ~recovered
    /\ res.flushed > 0
    /\ res.kind = "ok"
    /\ res.val = Hello

\* C10: index.Read(-1) returns the last entry, index.Read(n) for n below the
\* number of entries returns entry n, and every other entry number, and every
\* Read of an empty index, fails with end-of-data.
C10_IndexReadAddressing ==
    res.op = "IndexRead" =>
        LET n == ix.size \div entWidth
            entry(k) == res.kind = "ok" /\ res.off = written[k].off
                                        /\ res.pos = written[k].pos
        IN  IF n > 0 /\ res.in = MinusOne64
            THEN entry(n)
            ELSE IF \E k \in 0..(n - 1) : res.in = Wide(k)
            THEN \A k \in 0..(n - 1) : res.in = Wide(k) => entry(k + 1)
            ELSE res.kind = "EOF"

\* C11: an index.Write with room for one more entry in the mapping succeeds,
\* puts the 12 bytes of (off, pos) at the logical size, advances the logical
\* size by 12 and changes no byte elsewhere; with less than 12 bytes of room
\* it returns io.EOF and changes neither the logical size nor the file.
C11_IndexWrite ==
    [][res'.op = "IndexWrite" =>
          IF ix.mapLen - ix.size >= entWidth
          THEN /\ res'.kind = "ok"
               /\ ix'.size = ix.size + entWidth
               /\ ix'.mapLen = ix.mapLen
               /\ Len(indexFile') = Len(indexFile)
               /\ Uint32(SubSeq(indexFile', ix.size + 1, ix.size + offWidth))
                      = res'.off
               /\ Uint64(SubSeq(indexFile', ix.size + offWidth + 1,
                                ix.size + entWidth)) = res'.pos
               /\ \A k \in 1..Len(indexFile) :
                      (k <= ix.size \/ k > ix.size + entWidth)
                          => indexFile'[k] = indexFile[k]
          ELSE /\ res'.kind = "EOF"
               /\ ix' = ix
               /\ indexFile' = indexFile]_vars

C11_Witness ==
    /\ res.op = "IndexWrite"
    /\ res.kind = "EOF"
    /\ ix.size >= 2 * entWidth
    /\ Len(written) >= 2

\* C12: segment.IsMaxed returns true exactly when the store's size has reached
\* MaxStoreBytes, or the index's logical size has reached MaxIndexBytes, or
\* the mapping has less than 12 bytes of room left; the call changes neither
\* nextOffset, nor the store, nor the index, nor their files.
C12_IsMaxedPureQuery ==
    [][res'.op = "IsMaxed" =>
          /\ res'.val = (\/ st.size >= seg.config.MaxStoreBytes
                         \/ ix.size >= seg.config.MaxIndexBytes
                         \/ ix.mapLen - ix.size < entWidth)
          /\ UNCHANGED <<storeFile, indexFile, st, ix, seg, phase>>]_vars

C12_Witness ==
    /\ res.op = "IsMaxed"
    /\ res.val
    /\ st.size >= seg.config.MaxStoreBytes
    /\ ix.size < seg.config.MaxIndexBytes
    /\ ix.mapLen - ix.size >= entWidth
    /\ Len(appended) >= 2

\* C13: segment.Remove deletes a file only after Close has returned without
\* error, having made every call of index.Close and then closed the store;
\* when it succeeds both files are gone, and when Close fails both files are
\* still there.  A segment constructed on the directory after a successful
\* Remove has nextOffset = baseOffset and fails every Read.
C13_Remove ==
    [][/\ res'.op = "Remove" =>
              /\ res'.ok => dir' = {}
              /\ dir' # dir =>
                     /\ res'.closed
                     /\ res'.steps = <<"mmap.Sync", "mmap.UnsafeUnmap",
                                       "file.Sync", "file.Truncate",
                                       "file.Close", "store.Close">>
              /\ ~res'.closed =>
                     /\ ~res'.ok
                     /\ dir' = dir
                     /\ Len(storeFile') >= Len(storeFile)
       /\ (phase = "removed" /\ phase' = "open") =>
              /\ dir = {}
              /\ seg'.nextOffset = seg'.baseOffset
              /\ \A d \in Deltas :
                     segment_Read(World', Add64(seg'.baseOffset, d),
                                  FALSE).kind = "EOF"]_vars

C13_Witness ==
    /\ res.op = "newSegment"
    /\ res.lost >= 2
    /\ phase = "open"
    /\ dir = {"store", "index"}

\* bytes written according to the Appends that returned
RECURSIVE TotalWritten(_)
TotalWritten(h) ==
    IF h = <<>> THEN 0 ELSE h[1].n + TotalWritten(Tail(h))

\* C14: with two threads calling store.Append and store.Read in any
\* interleaving of their steps, the positions returned are distinct, the
\* entries [pos, pos + 8 + len) do not overlap, every Append returns
\* 8 + len bytes written, the store's size is the sum of the bytes written
\* whenever no Append is in progress, and a Read of a returned position
\* returns exactly the payload appended there.
C14_StoreAppendsAtomic ==
    /\ \A i, j \in 1..Len(stored) :
           i < j =>
               /\ stored[i].pos # stored[j].pos
               /\ \/ stored[i].pos + lenWidth + Len(stored[i].p)
                         <= stored[j].pos
                  \/ stored[j].pos + lenWidth + Len(stored[j].p)
                         <= stored[i].pos
    /\ \A i \in 1..Len(stored) : stored[i].n = lenWidth + Len(stored[i].p)
    /\ Appending = {} => st.size = TotalWritten(stored)
    /\ res.op = "StoreRead" =>
           \A i \in 1..Len(stored) :
               Wide(stored[i].pos) = res.pos =>
                   res.kind = "ok" /\ res.val = stored[i].p

C14_Witness ==
    /\ res.op = "StoreRead"
    /\ res.kind = "ok"
    /\ res.val = Hello
    /\ Len(stored) >= 2
    /\ \E t \in Threads : thr[t].pc = "Lock" /\ thr[t].op = "Append"

\* the relative offset stored in index entry n
EntryOff(n) ==
    Uint32(SubSeq(indexFile, n * entWidth + 1, n * entWidth + offWidth))

\* C15: when the callers serialize their two calls of segment.Append, the
\* calls return different offsets, every index entry below the logical size
\* holds its own entry number as relative offset, and no write leaves the
\* mapping.  (Without the callers' lock the witness is reached: both calls
\* return the same offset and an entry holds another number than its own.)
C15_SerializedAppends ==
    ext.on =>
        /\ phase # "broken"
        /\ \A i, j \in 1..Len(appended) :
               i < j => appended[i].Offset # appended[j].Offset
        /\ \A n \in 0..(ix.size \div entWidth - 1) :
               EntryOff(n) = U32(Wide(n))
        /\ (\A t \in Threads : thr[t].pc \in {"idle", "done"}) =>
               seg.nextOffset = Add64(seg.baseOffset, Wide(Len(appended)))

C15_Witness ==
    /\ ~ext.on
    /\ Len(appended) = 2
    /\ appended[1].Offset = appended[2].Offset
    /\ \E n \in 0..(ix.size \div entWidth - 1) :
           /\ (n + 1) * entWidth <= Len(indexFile)
           /\ EntryOff(n) # U32(Wide(n))

\* C16: index.Close makes its calls in the order mmap.Sync, mmap.UnsafeUnmap,
\* file.Sync, file.Truncate, file.Close and stops at the first that returns
\* an error; segment.Close calls store.Close only after all of them.  The
\* index file is MaxIndexBytes long while the segment is open and until
\* file.Truncate has succeeded, and 12 * (number of entries) long after it.
C16_CloseOrder ==
    [][/\ phase = "open" => Len(indexFile) = seg.config.MaxIndexBytes
       /\ res'.op = "Close" =>
              /\ \E n \in 1..6 :
                     res'.steps = SubSeq(<<"mmap.Sync", "mmap.UnsafeUnmap",
                                          "file.Sync", "file.Truncate",
                                          "file.Close", "store.Close">>,
                                        1, n)
              /\ res'.ifail # "none" =>
                     /\ ~res'.ok
                     /\ res'.steps[Len(res'.steps)] = res'.ifail
                     /\ st' = st
                     /\ storeFile' = storeFile
              /\ Len(indexFile') = IF Len(res'.steps) >= 5
                                   THEN entWidth * Len(written)
                                   ELSE seg.config.MaxIndexBytes
              /\ res'.ok => /\ Len(res'.steps) = 6
                            /\ Len(indexFile') = ix.size]_vars

C16_Witness ==
    /\ res.op = "Close"
    /\ res.ok
    /\ recovered
    /\ Len(written) >= 2
    /\ Len(indexFile) < seg.config.MaxIndexBytes

\* the position stored in index entry n
EntryPos(n) ==
    Uint64(SubSeq(indexFile, n * entWidth + offWidth + 1,
                  n * entWidth + entWidth))

\* the record that starts at position pos of the store, flushed or not
RecordAt(pos) ==
    LET all == storeFile \o st.buf
        len == Nat64(Uint64(SubSeq(all, pos + 1, pos + lenWidth)))
    IN  Unmarshal(SubSeq(all, pos + lenWidth + 1, pos + lenWidth + len)).rec

\* C17: for every entry number N below size / 12, index entry N holds N as
\* relative offset, and as position the position store.Append returned for
\* the record with Offset baseOffset + N, where the store holds that record.
C17_DenseIndex ==
    \A n \in 0..(ix.size \div entWidth - 1) :
        /\ EntryOff(n) = U32(Wide(n))
        /\ \E i \in 1..Len(stored) :
               /\ Unmarshal(stored[i].p).rec.Offset
                      = Add64(seg.baseOffset, Wide(n))
               /\ EntryPos(n) = Wide(stored[i].pos)
        /\ Fits(EntryPos(n))
        /\ RecordAt(Nat64(EntryPos(n))) = appended[n + 1]

C17_Witness ==
    /\ recovered
    /\ phase = "open"
    /\ seg.baseOffset = TwoTo32
    /\ ix.size = 3 * entWidth
    /\ Len(stored) > Len(appended)

\* C18: an Append that fails with io.EOF at the index write has grown the
\* store by 8 + len(serialized record) and left the index, its file and
\* nextOffset as they were; and in every open state after it, before or
\* after Close and newSegment, every offset assigned earlier reads back the
\* record appended there.
C18_OrphanIsBenign ==
    [][/\ (res'.op = "Append" /\ res'.kind = "EOF") =>
              /\ st'.size = st.size + lenWidth
                     + Len(Marshal([Value |-> res'.value,
                                    Offset |-> seg.nextOffset]))
              /\ ix' = ix
              /\ indexFile' = indexFile
              /\ seg' = seg
       /\ (phase' = "open" /\ Len(stored') > Len(appended')) =>
              /\ seg'.nextOffset
                     = Add64(seg'.baseOffset, Wide(Len(appended')))
              /\ \A i \in 1..Len(appended') :
                     \E r \in {segment_Read(World', appended'[i].Offset,
                                            FALSE)} :
                         r.kind = "ok" /\ r.rec = appended'[i]]_vars

C18_Witness ==
    /\ res.op = "newSegment"
    /\ recovered
    /\ phase = "open"
    /\ Len(stored) > Len(appended)
    /\ Len(appended) >= 2

\* C19: the index's logical size is a multiple of 12 in every state: on a new
\* file, after every Write, and after newIndex on a file left by an earlier
\* open, closed or not.
C19_SizeMultipleOfEntWidth == ix.size % entWidth = 0

\* C20: while the index is open its logical size is at most the length of
\* the mapping, and no Read addresses bytes outside the mapping, whatever
\* MaxIndexBytes the file is opened with.
C20_SizeWithinMapping ==
    phase = "open" =>
        /\ ix.size <= ix.mapLen
        /\ res.op = "IndexRead" => res.kind # "panic"

====
